---- MODULE Spec2Model ----
(***************************************************************************)
(* Model of the browser SIP user agent VoIPUser                            *)
(* (client/components/voip/VoIPUser.ts): the call-session state machine    *)
(* driven by UI commands (register, unregister, acceptCall, rejectCall,    *)
(* endCall) and by transport callbacks (onConnect, onDisconnect, onInvite, *)
(* onAccept, onReject, session stateChange).                               *)
(***************************************************************************)
EXTENDS Integers, Sequences, FiniteSets, TLC

\* ---------------------------------------------------------------- bounds
\* number of inbound invitations the transport delivers in one run
MaxInvitations == 2
\* number of register/unregister requests that may await their answer
MaxPending == 1

\* ---------------------------------------------------------------- values
CallStates ==
    {"IDLE", "SERVER_CONNECTED", "REGISTERED", "UNREGISTERED",
     "OFFER_RECEIVED", "ANSWER_SENT", "IN_CALL"}

Operations ==
    {"OP_NONE", "OP_CONNECT", "OP_REGISTER", "OP_UNREGISTER", "OP_PROCESS_INVITE"}

UserStates == {"IDLE", "UAS"}

\* sip.js SessionState values the listener and endCall switch over
SessionStates == {"Initial", "Establishing", "Established", "Terminating", "Terminated"}

\* session ids: 0 is `undefined`, 1..MaxInvitations are Invitation objects
NoSession == 0
InvIds == 1..MaxInvitations

\* the value of an undefined field or argument
Undefined == "undefined"

\* remote identities an invitation may carry (uri.user may be undefined)
UriUsers == {Undefined, "alice"}
DisplayNames == {"Alice"}
UriHosts == {"example.com"}

\* what session.sessionDescriptionHandler may be when Established is reported:
\* undefined ("none"), not a web SessionDescriptionHandler ("other"), a web one
\* without remoteMediaStream ("webNoRemote"), a web one with it ("web")
SdhKinds == {"none", "other", "webNoRemote", "web"}

\* errors handed over by the transport; Undefined is "no error"
Errors == {Undefined, "err"}

RequestKinds == {"REGISTER", "UNREGISTER"}

VARIABLES
    callState,            \* _callState
    opInProgress,         \* _opInProgress
    userState,            \* _userState
    session,              \* this.session (NoSession or an invitation id)
    callerInfoStored,     \* _callerInfo: <<>> when undefined, else <<ICallerInfo record>>
    isReady,              \* state.isReady
    remoteStream,         \* this.remoteStream: "undefined", "created" (a Stream wrapping
                          \* the remote media, rendered or not), "cleared"
    userAgent,            \* whether init() has created and started the UserAgent
    registerer,           \* whether onConnect has created the Registerer
    transport,            \* the UserAgent's transport: "Disconnected", "Connecting",
                          \* "Connected"
    pending,              \* requests handed to the registerer and not yet answered
    sessState,            \* transport: state of every invitation ("None": not arrived)
    accepted,             \* transport: invitations that got the accept command
    listeners,            \* invitations whose stateChange has our listener
    last                  \* the last handler run: name, outcome, events, commands

vars == <<callState, opInProgress, userState, session, callerInfoStored, isReady,
          remoteStream, userAgent, registerer, transport, pending,
          sessState, accepted, listeners, last>>

\* ------------------------------------------------------- recording helpers
\* what a listener of an emitted event can observe at the moment of delivery
Snap(cs, op, us, se, rs) ==
    [callState |-> cs, op |-> op, userState |-> us, session |-> se, remote |-> rs]

\* arg is <<>> for an event without payload, else <<payload>>
Ev(name, arg, snap) == [name |-> name, arg |-> arg, at |-> snap]

Cmd(name, inv) == [cmd |-> name, inv |-> inv]

\* the argument of a handler: the invitation and the session state or request
\* kind it is called with, where it has one
NoArg == [inv |-> NoSession, st |-> "-", sdh |-> "-"]

Last(name, result, events, cmds, arg) ==
    [name |-> name, result |-> result, events |-> events, cmds |-> cmds, arg |-> arg]

EvNames(evs) == [k \in 1..Len(evs) |-> evs[k].name]

NumPending == pending["REGISTER"] + pending["UNREGISTER"]

\* ------------------------------------------------------------------- Init
\* the object right after `new VoIPUser(config, mediaRenderer)`
Init ==
    /\ callState = "IDLE"
    /\ opInProgress = "OP_NONE"
    /\ userState = "IDLE"
    /\ session = NoSession
    /\ callerInfoStored = <<>>
    /\ isReady = FALSE
    /\ remoteStream = "undefined"
    /\ userAgent = FALSE
    /\ registerer = FALSE
    /\ transport = "Disconnected"
    /\ pending = [k \in RequestKinds |-> 0]
    /\ sessState = [i \in InvIds |-> "None"]
    /\ accepted = {}
    /\ listeners = {}
    /\ last = Last("new", "ok", <<>>, <<>>, NoArg)

\* ----------------------------------------------------------------- init()
\* init(): builds the delegate, creates the UserAgent, marks OP_CONNECT, starts it
\* (create() calls it once; start() is the only connection attempt the class makes)
InitUserAgent ==
    /\ ~userAgent
    /\ userAgent' = TRUE
    /\ transport' = "Connecting"
    /\ opInProgress' = "OP_CONNECT"
    /\ last' = Last("init", "ok", <<>>, <<Cmd("start", NoSession)>>, NoArg)
    /\ UNCHANGED <<callState, userState, session, callerInfoStored, isReady, remoteStream,
                   registerer, pending, sessState, accepted, listeners>>

\* delegate.onConnect, with the constructor's 'connected' listener
OnConnect ==
    /\ transport = "Connecting"
    /\ transport' = "Connected"
    /\ callState' = "SERVER_CONNECTED"
    /\ isReady' = TRUE
    /\ registerer' = TRUE
    /\ last' = Last("onConnect", "ok",
                    <<Ev("connected", <<>>,
                         Snap("SERVER_CONNECTED", opInProgress, userState, session, remoteStream))>>,
                    <<>>, NoArg)
    /\ UNCHANGED <<opInProgress, userState, session, callerInfoStored, remoteStream,
                   userAgent, pending, sessState, accepted, listeners>>

\* faulty variant of OnDisconnect: 'connectionerror' is emitted but the flag is
\* not cleared
OnDisconnect_KeepsReady(error) ==
    /\ transport \in {"Connecting", "Connected"}
    /\ transport' = "Disconnected"
    /\ last' = Last("onDisconnect", "ok",
                    IF error # Undefined
                    THEN <<Ev("connectionerror", <<error>>,
                              Snap(callState, opInProgress, userState, session, remoteStream))>>
                    ELSE <<>>,
                    <<>>, NoArg)
    /\ UNCHANGED <<callState, opInProgress, userState, session, callerInfoStored, remoteStream,
                   userAgent, registerer, pending, sessState, accepted, listeners, isReady>>

\* delegate.onDisconnect(error), with the constructor's 'connectionerror' listener
OnDisconnect(error) ==
    /\ transport \in {"Connecting", "Connected"}
    /\ transport' = "Disconnected"
    /\ isReady' = IF error # Undefined THEN FALSE ELSE isReady
    /\ last' = Last("onDisconnect", "ok",
                    IF error # Undefined
                    THEN <<Ev("connectionerror", <<error>>,
                              Snap(callState, opInProgress, userState, session, remoteStream))>>
                    ELSE <<>>,
                    <<>>, NoArg)
    /\ UNCHANGED <<callState, opInProgress, userState, session, callerInfoStored, remoteStream,
                   userAgent, registerer, pending, sessState, accepted, listeners>>

\* --------------------------------------------------- register / unregister
\* registerer?.register / registerer?.unregister: a request goes out only if
\* the Registerer exists
SendRequest(kind) ==
    IF registerer THEN [pending EXCEPT ![kind] = @ + 1] ELSE pending

\* register()
Register ==
    /\ NumPending < MaxPending
    /\ opInProgress' = "OP_REGISTER"
    /\ pending' = SendRequest("REGISTER")
    /\ last' = Last("register", "ok", <<>>,
                    IF registerer THEN <<Cmd("register", NoSession)>> ELSE <<>>, NoArg)
    /\ UNCHANGED <<callState, userState, session, callerInfoStored, isReady, remoteStream,
                   userAgent, registerer, transport, sessState, accepted, listeners>>

\* unregister()
Unregister ==
    /\ NumPending < MaxPending
    /\ opInProgress' = "OP_UNREGISTER"
    /\ pending' = SendRequest("UNREGISTER")
    /\ last' = Last("unregister", "ok", <<>>,
                    IF registerer THEN <<Cmd("unregister", NoSession)>> ELSE <<>>, NoArg)
    /\ UNCHANGED <<callState, userState, session, callerInfoStored, isReady, remoteStream,
                   userAgent, registerer, transport, sessState, accepted, listeners>>

\* faulty variant of OnAcceptCallState: every acknowledgment that is not for an
\* unregistration counts as a registration
OnAcceptCallState_Unattributed(cs, op) ==
    IF op = "OP_UNREGISTER" THEN "UNREGISTERED" ELSE "REGISTERED"

\* onAccept(): the call state it leaves, decided by _opInProgress alone
OnAcceptCallState(cs, op) ==
    IF op = "OP_UNREGISTER" THEN "UNREGISTERED"
    ELSE IF op = "OP_REGISTER" THEN "REGISTERED"
    ELSE cs

\* onAccept(): _opInProgress after the handler (the handler never assigns it)
OnAcceptOp(op) == op

\* onAccept(): the events it emits
OnAcceptEvents(cs, op, us, se, rs) ==
    IF op = "OP_REGISTER"
    THEN <<Ev("registered", <<>>, Snap("REGISTERED", op, us, se, rs)),
           Ev("stateChanged", <<>>, Snap("REGISTERED", op, us, se, rs))>>
    ELSE IF op = "OP_UNREGISTER"
    THEN <<Ev("unregistered", <<>>, Snap("UNREGISTERED", op, us, se, rs)),
           Ev("stateChanged", <<>>, Snap("UNREGISTERED", op, us, se, rs))>>
    ELSE <<>>

\* the transport accepts the outstanding request of kind `kind`: onAccept()
OnAccept(kind) ==
    /\ transport = "Connected"
    /\ pending[kind] > 0
    /\ pending' = [pending EXCEPT ![kind] = @ - 1]
    /\ callState' = OnAcceptCallState(callState, opInProgress)
    /\ opInProgress' = OnAcceptOp(opInProgress)
    /\ last' = Last("onAccept", "ok",
                    OnAcceptEvents(callState, opInProgress, userState, session, remoteStream),
                    <<>>, [NoArg EXCEPT !.st = kind])
    /\ UNCHANGED <<userState, session, callerInfoStored, isReady, remoteStream,
                   userAgent, registerer, transport, sessState, accepted, listeners>>

\* onReject(): _opInProgress after the handler (the handler never assigns it)
OnRejectOp(op) == op

\* onReject(error): the events it emits
OnRejectEvents(cs, op, us, se, rs, error) ==
    IF op = "OP_REGISTER"
    THEN <<Ev("registrationerror", <<error>>, Snap(cs, op, us, se, rs))>>
    ELSE IF op = "OP_UNREGISTER"
    THEN <<Ev("unregistrationerror", <<error>>, Snap(cs, op, us, se, rs))>>
    ELSE <<>>

\* the transport rejects the outstanding request of kind `kind`: onReject(error)
OnReject(kind, error) ==
    /\ pending[kind] > 0
    /\ pending' = [pending EXCEPT ![kind] = @ - 1]
    /\ opInProgress' = OnRejectOp(opInProgress)
    /\ last' = Last("onReject", "ok",
                    OnRejectEvents(callState, opInProgress, userState, session, remoteStream,
                                   error),
                    <<>>, [NoArg EXCEPT !.st = kind])
    /\ UNCHANGED <<callState, userState, session, callerInfoStored, isReady, remoteStream,
                   userAgent, registerer, transport, sessState, accepted, listeners>>

\* ------------------------------------------------------ handleIncomingCall
\* faulty variant of MakeCallerInfo: uri.user is copied without the '' fallback
MakeCallerInfo_NoFallback(user, displayName, host) ==
    [callerId |-> user, callerName |-> displayName, host |-> host]

\* the ICallerInfo built from invitation.remoteIdentity
MakeCallerInfo(user, displayName, host) ==
    [callerId |-> IF user # Undefined THEN user ELSE "",
     callerName |-> displayName,
     host |-> host]

\* faulty variant of IncomingCallAdopted: the callState check is missing
IncomingCallAdopted_Always == TRUE

\* handleIncomingCall: the condition under which the invitation is adopted
IncomingCallAdopted == callState = "REGISTERED"

\* handleIncomingCall: the events of the adopting branch
IncomingCallEvents(info, inv) ==
    <<Ev("incomingcall", <<info>>,
         Snap("OFFER_RECEIVED", "OP_PROCESS_INVITE", "UAS", inv, remoteStream)),
      Ev("stateChanged", <<>>,
         Snap("OFFER_RECEIVED", "OP_PROCESS_INVITE", "UAS", inv, remoteStream))>>

\* delegate.onInvite -> handleIncomingCall(invitation); invitations are numbered
\* in their order of arrival
HandleIncomingCall(user, displayName, host) ==
    /\ transport = "Connected"
    /\ \E inv \in InvIds :
        /\ sessState[inv] = "None"
        /\ \A j \in InvIds : j < inv => sessState[j] # "None"
        /\ sessState' = [sessState EXCEPT ![inv] = "Initial"]
        /\ IF IncomingCallAdopted
           THEN /\ opInProgress' = "OP_PROCESS_INVITE"
                /\ callState' = "OFFER_RECEIVED"
                /\ userState' = "UAS"
                /\ session' = inv
                /\ listeners' = listeners \cup {inv}
                /\ callerInfoStored' = <<MakeCallerInfo(user, displayName, host)>>
                /\ last' = Last("handleIncomingCall", "ok",
                                IncomingCallEvents(MakeCallerInfo(user, displayName, host), inv),
                                <<>>, [NoArg EXCEPT !.inv = inv])
           ELSE /\ last' = Last("handleIncomingCall", "ok", <<>>,
                                <<Cmd("reject", inv)>>, [NoArg EXCEPT !.inv = inv])
                /\ UNCHANGED <<opInProgress, callState, userState, session, listeners,
                               callerInfoStored>>
    /\ UNCHANGED <<isReady, remoteStream, userAgent, registerer, transport,
                   pending, accepted>>

\* --------------------------------------------------------------- acceptCall
\* faulty variant of AcceptCallGuard: only the operation is checked, not the callState
AcceptCallGuard_AnyState == opInProgress = "OP_PROCESS_INVITE"

\* acceptCall: the guard of the accepting branch
AcceptCallGuard ==
    callState = "OFFER_RECEIVED" /\ opInProgress = "OP_PROCESS_INVITE"

\* `this.session instanceof Invitation`: every tracked session is an Invitation
\* (handleIncomingCall is the only assignment of a session), undefined is not
SessionIsInvitation == session # NoSession

\* acceptCall(mediaRenderer?); the renderer only decides where a created Stream
\* is played and is not part of the state
AcceptCall ==
    /\ IF AcceptCallGuard
       THEN /\ callState' = "ANSWER_SENT"
            /\ IF SessionIsInvitation
               THEN /\ accepted' = accepted \cup {session}
                    /\ last' = Last("acceptCall", "ok", <<>>, <<Cmd("accept", session)>>, NoArg)
               ELSE /\ last' = Last("acceptCall", "error", <<>>, <<>>, NoArg)
                    /\ UNCHANGED accepted
       ELSE /\ last' = Last("acceptCall", "error", <<>>, <<>>, NoArg)
            /\ UNCHANGED <<callState, accepted>>
    /\ UNCHANGED <<opInProgress, userState, session, callerInfoStored, isReady, remoteStream,
                   userAgent, registerer, transport, pending, sessState, listeners>>

\* --------------------------------------------------------------- rejectCall
\* faulty variant of RejectCallGuard: the callState check is missing
RejectCallGuard_AnyState == session # NoSession /\ SessionIsInvitation

\* rejectCall: all three checks pass
RejectCallGuard ==
    session # NoSession /\ callState = "OFFER_RECEIVED" /\ SessionIsInvitation

\* rejectCall()
RejectCall ==
    /\ last' = IF RejectCallGuard
               THEN Last("rejectCall", "ok", <<>>, <<Cmd("reject", session)>>, NoArg)
               ELSE Last("rejectCall", "error", <<>>, <<>>, NoArg)
    /\ UNCHANGED <<callState, opInProgress, userState, session, callerInfoStored, isReady,
                   remoteStream, userAgent, registerer, transport, transport, pending,
                   sessState, accepted, listeners>>

\* ------------------------------------------------------------------ endCall
\* faulty variant of EndCallGuard: the callState check is missing
EndCallGuard_AnyState == session # NoSession

\* endCall: the two checks before the switch pass
EndCallGuard ==
    session # NoSession /\ callState \in {"ANSWER_SENT", "IN_CALL"}

\* faulty variant of EndCallDispatch: a session that is still being established
\* is ended with bye instead of reject
EndCallDispatch_ByeWhileEstablishing(st, inv) ==
    IF st = "Initial"
    THEN IF SessionIsInvitation THEN <<"ok", <<Cmd("reject", inv)>> >> ELSE <<"error", <<>> >>
    ELSE IF st \in {"Establishing", "Established"} THEN <<"ok", <<Cmd("bye", inv)>> >>
    ELSE IF st \in {"Terminating", "Terminated"} THEN <<"ok", <<>> >>
    ELSE <<"error", <<>> >>

\* endCall: the switch over this.session.state, as <<result, commands>>
EndCallDispatch(st, inv) ==
    IF st \in {"Initial", "Establishing"}
    THEN IF SessionIsInvitation THEN <<"ok", <<Cmd("reject", inv)>> >> ELSE <<"error", <<>> >>
    ELSE IF st = "Established" THEN <<"ok", <<Cmd("bye", inv)>> >>
    ELSE IF st \in {"Terminating", "Terminated"} THEN <<"ok", <<>> >>
    ELSE <<"error", <<>> >>

\* endCall()
EndCall ==
    /\ last' = IF EndCallGuard
               THEN Last("endCall", EndCallDispatch(sessState[session], session)[1], <<>>,
                         EndCallDispatch(sessState[session], session)[2], NoArg)
               ELSE Last("endCall", "error", <<>>, <<>>, NoArg)
    /\ UNCHANGED <<callState, opInProgress, userState, session, callerInfoStored, isReady,
                   remoteStream, userAgent, registerer, transport, transport, pending,
                   sessState, accepted, listeners>>

\* ------------------------------------------------ session stateChange listener
\* the transport's session life cycle (sip.js SessionState): Establishing only
\* follows the accept command, Established only follows Establishing, and a
\* session can be terminated at any point before it is Terminated
SessionSucc(st, acc) ==
    IF st = "Initial" THEN (IF acc THEN {"Establishing"} ELSE {}) \cup {"Terminated"}
    ELSE IF st = "Establishing" THEN {"Established", "Terminating", "Terminated"}
    ELSE IF st = "Established" THEN {"Terminating", "Terminated"}
    ELSE IF st = "Terminating" THEN {"Terminated"}
    ELSE {}

\* faulty variant of IsStale: the listener does not compare the sessions
IsStale_Never(inv) == FALSE

\* the listener's first statement: `if (this.session !== session) return`
IsStale(inv) == session # inv

\* Stream.clear(): detaches the tracks and stops playback
StreamClear(rs) == "cleared"

\* `this.remoteStream?.clear()`
ClearRemoteStream(rs) == IF rs = "undefined" THEN rs ELSE StreamClear(rs)

\* faulty variant of SetupRemoteMedia: the Stream is built but not stored in remoteStream
SetupRemoteMedia_NotStored(se, sdh, rs) ==
    IF se = NoSession \/ sdh \in {"other", "webNoRemote"} THEN <<"throw", rs>> ELSE <<"ok", rs>>

\* setupRemoteMedia(), as <<outcome, this.remoteStream afterwards>>
SetupRemoteMedia(se, sdh, rs) ==
    IF se = NoSession THEN <<"throw", rs>>
    ELSE IF sdh = "none" THEN <<"ok", rs>>
    ELSE IF sdh = "other" THEN <<"throw", rs>>
    ELSE IF sdh = "webNoRemote" THEN <<"throw", rs>>
    ELSE <<"ok", "created">>

\* case SessionState.Established: the events emitted after setupRemoteMedia returned
EstablishedEvents(us, se, rs) ==
    <<Ev("callestablished", <<>>, Snap("IN_CALL", "OP_NONE", us, se, rs)),
      Ev("stateChanged", <<>>, Snap("IN_CALL", "OP_NONE", us, se, rs))>>

\* case SessionState.Terminating / Terminated: the two events, each with what
\* its listeners observe; remoteStream?.clear() runs between them
TerminatedEvents(rs) ==
    <<Ev("callterminated", <<>>, Snap("REGISTERED", "OP_NONE", "IDLE", NoSession, rs)),
      Ev("stateChanged", <<>>,
         Snap("REGISTERED", "OP_NONE", "IDLE", NoSession, ClearRemoteStream(rs)))>>

\* case SessionState.Established of the listener; sdh is what the session
\* exposes at that moment
ListenerEstablished(inv, st, sdh) ==
    /\ opInProgress' = "OP_NONE"
    /\ callState' = "IN_CALL"
    /\ remoteStream' = SetupRemoteMedia(session, sdh, remoteStream)[2]
    /\ last' = Last("stateChange",
                    SetupRemoteMedia(session, sdh, remoteStream)[1],
                    IF SetupRemoteMedia(session, sdh, remoteStream)[1] = "ok"
                    THEN EstablishedEvents(userState, session, remoteStream')
                    ELSE <<>>,
                    <<>>, [inv |-> inv, st |-> st, sdh |-> sdh])
    /\ UNCHANGED <<userState, session>>

\* faulty variant of ListenerTerminated: the session is untracked but callState
\* is left as it was
ListenerTerminated_KeepsCallState(inv, st) ==
    /\ session' = NoSession
    /\ callState' = callState
    /\ opInProgress' = "OP_NONE"
    /\ userState' = "IDLE"
    /\ remoteStream' = ClearRemoteStream(remoteStream)
    /\ last' = Last("stateChange", "ok", TerminatedEvents(remoteStream), <<>>,
                    [NoArg EXCEPT !.inv = inv, !.st = st])

\* case SessionState.Terminating / Terminated of the listener
ListenerTerminated(inv, st) ==
    /\ session' = NoSession
    /\ callState' = "REGISTERED"
    /\ opInProgress' = "OP_NONE"
    /\ userState' = "IDLE"
    /\ remoteStream' = ClearRemoteStream(remoteStream)
    /\ last' = Last("stateChange", "ok", TerminatedEvents(remoteStream), <<>>,
                    [NoArg EXCEPT !.inv = inv, !.st = st])

\* the body of the listener installed by setupSessionEventHandlers(inv), called
\* with state st
Listener(inv, st) ==
    IF IsStale(inv)
    THEN /\ last' = Last("stateChange", "stale", <<>>, <<>>, [NoArg EXCEPT !.inv = inv, !.st = st])
         /\ UNCHANGED <<callState, opInProgress, userState, session, remoteStream>>
    ELSE IF st \in {"Initial", "Establishing"}
    THEN /\ last' = Last("stateChange", "ok", <<>>, <<>>, [NoArg EXCEPT !.inv = inv, !.st = st])
         /\ UNCHANGED <<callState, opInProgress, userState, session, remoteStream>>
    ELSE IF st = "Established"
    THEN \E sdh \in SdhKinds : ListenerEstablished(inv, st, sdh)
    ELSE ListenerTerminated(inv, st)

\* the transport moves invitation inv to state st and notifies the listener
\* that setupSessionEventHandlers added to its stateChange
SessionStateChange(inv, st) ==
    /\ inv \in listeners
    /\ st \in SessionSucc(sessState[inv], inv \in accepted)
    /\ sessState' = [sessState EXCEPT ![inv] = st]
    /\ Listener(inv, st)
    /\ UNCHANGED <<callerInfoStored, isReady, userAgent, registerer, transport,
                   pending, accepted, listeners>>

\* ------------------------------------------------------- callerInfo getter
\* faulty variant of CallerInfoGetter: the stored info is handed out in every state
CallerInfoGetter_AnyState(cs, us, info) ==
    IF info = <<>>
    THEN [result |-> "error", state |-> cs, userState |-> us, callerInfo |-> <<>>]
    ELSE [result |-> "ok", state |-> cs, userState |-> us, callerInfo |-> info]

\* get callerInfo(): what the accessor returns (callerInfo <<>>: the returned
\* object has no callerInfo member) or that it throws
CallerInfoGetter(cs, us, info) ==
    IF cs = "IN_CALL"
    THEN IF info = <<>>
         THEN [result |-> "error", state |-> cs, userState |-> us, callerInfo |-> <<>>]
         ELSE [result |-> "ok", state |-> "IN_CALL", userState |-> us, callerInfo |-> info]
    ELSE [result |-> "ok", state |-> cs, userState |-> us, callerInfo |-> <<>>]

\* ------------------------------------------------------------ specification
Next ==
    \/ InitUserAgent
    \/ OnConnect
    \/ \E error \in Errors : OnDisconnect(error)
    \/ Register
    \/ Unregister
    \/ \E kind \in RequestKinds : OnAccept(kind)
    \/ \E kind \in RequestKinds : \E error \in Errors \ {Undefined} : OnReject(kind, error)
    \/ \E user \in UriUsers : \E displayName \in DisplayNames : \E host \in UriHosts :
           HandleIncomingCall(user, displayName, host)
    \/ AcceptCall
    \/ RejectCall
    \/ EndCall
    \/ \E inv \in InvIds : \E st \in SessionStates : SessionStateChange(inv, st)

Spec == Init /\ [][Next]_vars

TypeOK ==
    /\ callState \in CallStates
    /\ opInProgress \in Operations
    /\ userState \in UserStates
    /\ session \in {NoSession} \cup InvIds
    /\ Len(callerInfoStored) <= 1
    /\ isReady \in BOOLEAN
    /\ remoteStream \in {"undefined", "created", "cleared"}
    /\ NumPending <= MaxPending
    /\ transport \in {"Disconnected", "Connecting", "Connected"}
    /\ accepted \subseteq InvIds
    /\ listeners \subseteq InvIds

\* ==================================================================== claims
StableCallStates == {"IDLE", "REGISTERED", "UNREGISTERED", "IN_CALL"}

CallInProgressStates == {"OFFER_RECEIVED", "ANSWER_SENT", "IN_CALL"}

\* the operation named by _opInProgress is really outstanding: the connect has
\* not been answered, a request of that kind awaits its answer, or an adopted
\* invitation has not been established or terminated yet
OperationOutstanding ==
    \/ opInProgress = "OP_CONNECT" /\ transport = "Connecting"
    \/ opInProgress = "OP_REGISTER" /\ pending["REGISTER"] > 0
    \/ opInProgress = "OP_UNREGISTER" /\ pending["UNREGISTER"] > 0
    \/ opInProgress = "OP_PROCESS_INVITE" /\ session # NoSession
          /\ callState \in {"OFFER_RECEIVED", "ANSWER_SENT"}

\* C1: in every reachable state, a stable callState (IDLE, REGISTERED,
\* UNREGISTERED, IN_CALL) comes with operationInProgress = OP_NONE;
\* operationInProgress is non-NONE only while its transient operation is
\* outstanding (so the connect that init() has started and the transport has
\* not answered is the one non-NONE value a stable state may show).
C1_StableMeansNoOperation ==
    /\ (callState \in StableCallStates /\ ~OperationOutstanding) => opInProgress = "OP_NONE"
    /\ opInProgress # "OP_NONE" => OperationOutstanding

\* C2: after every register/unregister exchange that the transport has
\* answered (onAccept or onReject ran), operationInProgress is OP_NONE again;
\* in particular REGISTERED reached by onAccept comes with OP_NONE.
C2_OpNoneAfterAnswer ==
    last.name \in {"onAccept", "onReject"} => opInProgress = "OP_NONE"

\* C3: the stored caller info is defined if and only if callState is
\* OFFER_RECEIVED, ANSWER_SENT or IN_CALL; it is undefined before the first
\* invitation and undefined again once the call has terminated.
C3_CallerInfoIffCallInProgress ==
    (callerInfoStored # <<>>) <=> (callState \in CallInProgressStates)

\* C4: acceptCall() in any callState other than OFFER_RECEIVED fails with an
\* error, leaves callState, operationInProgress, userState, callerInfo and
\* isReady unchanged and issues no command to the transport.
C4_AcceptOutsideOfferFails ==
    [][(last'.name = "acceptCall" /\ callState # "OFFER_RECEIVED")
         => /\ last'.result = "error"
            /\ last'.cmds = <<>>
            /\ UNCHANGED <<callState, opInProgress, userState, callerInfoStored, isReady>>]_vars

\* C4 witness: a second acceptCall() while already in ANSWER_SENT has failed
C4_Witness ==
    /\ last.name = "acceptCall"
    /\ last.result = "error"
    /\ callState = "ANSWER_SENT"
    /\ opInProgress = "OP_PROCESS_INVITE"

\* C5: endCall() in IDLE, SERVER_CONNECTED, REGISTERED or UNREGISTERED fails
\* with an error, with or without a tracked session, leaves callState,
\* operationInProgress, userState, callerInfo and the tracked session unchanged
\* and issues neither reject nor bye.
C5_EndCallOutsideCallFails ==
    [][(last'.name = "endCall"
          /\ callState \in {"IDLE", "SERVER_CONNECTED", "REGISTERED", "UNREGISTERED"})
         => /\ last'.result = "error"
            /\ last'.cmds = <<>>
            /\ UNCHANGED <<callState, opInProgress, userState, callerInfoStored, session>>]_vars

\* C5 witness: endCall() has failed in REGISTERED although a session is tracked
C5_Witness ==
    /\ last.name = "endCall"
    /\ last.result = "error"
    /\ callState = "REGISTERED"
    /\ session # NoSession

\* C6: an invitation arriving in REGISTERED sets OP_PROCESS_INVITE,
\* OFFER_RECEIVED and UAS, becomes the tracked session, fills callerInfo from
\* its remote identity (callerId "" when the uri has no user), emits
\* 'incomingcall' with that callerInfo exactly once and then 'stateChanged',
\* and is not rejected.
C6_InvitationAdoptedWhenRegistered ==
    [][\A user \in UriUsers : \A displayName \in DisplayNames : \A host \in UriHosts :
         (HandleIncomingCall(user, displayName, host) /\ callState = "REGISTERED")
         => /\ opInProgress' = "OP_PROCESS_INVITE"
            /\ callState' = "OFFER_RECEIVED"
            /\ userState' = "UAS"
            /\ session' = last'.arg.inv
            /\ sessState[session'] = "None"
            /\ callerInfoStored' =
                  <<[callerId |-> IF user = Undefined THEN "" ELSE user,
                     callerName |-> displayName, host |-> host]>>
            /\ EvNames(last'.events) = <<"incomingcall", "stateChanged">>
            /\ last'.events[1].arg = callerInfoStored'
            /\ last'.cmds = <<>>]_vars

\* C6 witness: alice's invitation has been adopted
C6_Witness ==
    /\ last.name = "handleIncomingCall"
    /\ last.cmds = <<>>
    /\ callState = "OFFER_RECEIVED"
    /\ session = last.arg.inv
    /\ Len(callerInfoStored) = 1
    /\ callerInfoStored[1].callerId = "alice"
    /\ callerInfoStored[1].host = "example.com"

\* C7: an invitation arriving in any callState other than REGISTERED is
\* rejected at once; callState, operationInProgress, userState, callerInfo and
\* the tracked session are unchanged and no event is emitted.
C7_InvitationRejectedUnlessRegistered ==
    [][(last'.name = "handleIncomingCall" /\ callState # "REGISTERED")
         => /\ last'.cmds = <<Cmd("reject", last'.arg.inv)>>
            /\ last'.events = <<>>
            /\ last'.arg.inv # session
            /\ UNCHANGED <<callState, opInProgress, userState, callerInfoStored, session>>]_vars

\* C7 witness: a second invitation has been rejected while a call is in progress
C7_Witness ==
    /\ last.name = "handleIncomingCall"
    /\ last.cmds # <<>>
    /\ callState = "IN_CALL"
    /\ session # NoSession

\* a stateChange callback of the tracked session reporting state st
TrackedSessionReports(states) ==
    /\ last'.name = "stateChange"
    /\ last'.arg.st \in states
    /\ session # NoSession
    /\ session = last'.arg.inv

\* acceptCall() from OFFER_RECEIVED with OP_PROCESS_INVITE sets ANSWER_SENT and
\* issues the accept command for the tracked session
AcceptSendsAnswer ==
    (last'.name = "acceptCall" /\ callState = "OFFER_RECEIVED"
       /\ opInProgress = "OP_PROCESS_INVITE")
    => /\ callState' = "ANSWER_SENT"
       /\ last'.result = "ok"
       /\ last'.cmds = <<Cmd("accept", session)>>
       /\ UNCHANGED <<opInProgress, session>>

C9_TerminationReleasesBeforeEvents ==
    [][(TrackedSessionReports({"Terminating", "Terminated"})
          /\ callState \in CallInProgressStates)
         => /\ session' = NoSession
            /\ callState' = "REGISTERED"
            /\ opInProgress' = "OP_NONE"
            /\ userState' = "IDLE"
            /\ remoteStream' # "created"
            /\ EvNames(last'.events) = <<"callterminated", "stateChanged">>
            /\ \A k \in 1..Len(last'.events) :
                  /\ last'.events[k].at.remote # "created"
                  /\ last'.events[k].at.callState = "REGISTERED"
                  /\ last'.events[k].at.op = "OP_NONE"
                  /\ last'.events[k].at.userState = "IDLE"
                  /\ last'.events[k].at.session = NoSession]_vars

\* C10: a stateChange callback of a session that is not the tracked one
\* (replaced or cleared) changes none of callState, operationInProgress,
\* userState, callerInfo, the tracked session and the remote media stream, and
\* emits nothing, whatever state it reports.
C10_StaleCallbackIgnored ==
    [][(last'.name = "stateChange" /\ last'.arg.inv # session)
         => /\ last'.events = <<>>
            /\ last'.cmds = <<>>
            /\ UNCHANGED <<callState, opInProgress, userState, callerInfoStored, session,
                           remoteStream>>]_vars

\* C10 witness: the superseded session has reported Established while another
\* session is tracked and in call
C10_Witness ==
    /\ last.name = "stateChange"
    /\ last.result = "stale"
    /\ last.arg.st = "Established"
    /\ session # NoSession
    /\ session # last.arg.inv
    /\ sessState[session] = "Established"

\* the edges of the specified call-state graph
SpecifiedEdges ==
    {<<"IDLE", "SERVER_CONNECTED">>, <<"SERVER_CONNECTED", "REGISTERED">>,
     <<"REGISTERED", "UNREGISTERED">>, <<"UNREGISTERED", "REGISTERED">>,
     <<"REGISTERED", "OFFER_RECEIVED">>, <<"OFFER_RECEIVED", "ANSWER_SENT">>,
     <<"ANSWER_SENT", "IN_CALL">>, <<"IN_CALL", "REGISTERED">>}

\* C11: every change of callState follows one of the edges of the specified
\* state graph; no other callState transition occurs.
C11_OnlySpecifiedEdges ==
    [][callState' # callState => <<callState, callState'>> \in SpecifiedEdges]_vars

\* the operation a command starts or continues
OwnOperation(name) ==
    IF name = "register" THEN "OP_REGISTER"
    ELSE IF name = "unregister" THEN "OP_UNREGISTER"
    ELSE "OP_PROCESS_INVITE"

\* C12: a register(), unregister() or acceptCall() issued while another
\* operation is outstanding is rejected: it issues no command and does not
\* replace the outstanding operationInProgress value.
C12_OverlappingRequestsRejected ==
    [][(/\ last'.name \in {"register", "unregister", "acceptCall"}
        /\ OperationOutstanding
        /\ opInProgress # OwnOperation(last'.name))
         => /\ opInProgress' = opInProgress
            /\ last'.cmds = <<>>]_vars

\* the callerInfo accessor read in the current state
CallerInfoRead == CallerInfoGetter(callState, userState, callerInfoStored)

\* C13 as stated: reading callerInfo in any callState other than IN_CALL fails
\* instead of returning a value.
C13_ReadOutsideCallFails ==
    callState # "IN_CALL" => CallerInfoRead.result = "error"

\* C13 amended: reading callerInfo never fails in a reachable state; outside
\* IN_CALL it returns the callState and userState without caller info (also
\* when one is stored), and in IN_CALL it returns them with the stored caller
\* info.
C13_ReadReturnsInfoOnlyInCall ==
    /\ CallerInfoRead.result = "ok"
    /\ CallerInfoRead.state = callState
    /\ CallerInfoRead.userState = userState
    /\ callState # "IN_CALL" => CallerInfoRead.callerInfo = <<>>
    /\ callState = "IN_CALL"
         => CallerInfoRead.callerInfo # <<>> /\ CallerInfoRead.callerInfo = callerInfoStored

\* C13 witness: an offer is pending, its caller info is stored, and the
\* accessor returns without it
C13_Witness ==
    /\ callState = "OFFER_RECEIVED"
    /\ callerInfoStored # <<>>
    /\ CallerInfoRead.result = "ok"
    /\ CallerInfoRead.callerInfo = <<>>

\* C14: isReady is false initially; every connect acknowledgment sets it true,
\* sets callState SERVER_CONNECTED and emits 'connected'; every connection
\* error sets it false, emits 'connectionerror' carrying the error, leaves
\* callState and operationInProgress unchanged and issues no command (no
\* reconnect, no retry); nothing else changes isReady, so it always tells
\* whether the most recent of the two events was a connect acknowledgment.
C14_IsReadyFollowsConnection ==
    /\ isReady = FALSE
    /\ [][/\ OnConnect
              => /\ isReady' = TRUE
                 /\ callState' = "SERVER_CONNECTED"
                 /\ EvNames(last'.events) = <<"connected">>
          /\ \A error \in Errors \ {Undefined} :
               OnDisconnect(error)
                 => /\ isReady' = FALSE
                    /\ EvNames(last'.events) = <<"connectionerror">>
                    /\ last'.events[1].arg = <<error>>
                    /\ last'.cmds = <<>>
                    /\ UNCHANGED <<callState, opInProgress>>
          /\ (last'.name # "onConnect"
                /\ ~(last'.name = "onDisconnect" /\ last'.events # <<>>))
               => UNCHANGED isReady]_vars

\* C14 witness: a connection error has cleared the flag that the connect
\* acknowledgment had set
C14_Witness ==
    /\ last.name = "onDisconnect"
    /\ last.events # <<>>
    /\ registerer
    /\ isReady = FALSE

\* C15: rejectCall() issues a reject command for the tracked session exactly
\* when a session is tracked and callState is OFFER_RECEIVED (a tracked session
\* is always an inbound invitation); in every other case it fails with an
\* error and issues no command. In both cases rejectCall() itself changes none
\* of callState, operationInProgress, userState and the tracked session.
C15_RejectOnlyPendingOffer ==
    [][last'.name = "rejectCall"
         => /\ UNCHANGED <<callState, opInProgress, userState, session, callerInfoStored,
                           remoteStream, sessState>>
            /\ IF session # NoSession /\ callState = "OFFER_RECEIVED"
               THEN last'.result = "ok" /\ last'.cmds = <<Cmd("reject", session)>>
               ELSE last'.result = "error" /\ last'.cmds = <<>>]_vars

\* rejectCall() has failed in ANSWER_SENT although a session is tracked
C15_RejectRefused ==
    /\ last.name = "rejectCall"
    /\ last.result = "error"
    /\ callState = "ANSWER_SENT"
    /\ session # NoSession

\* C15 witness: rejectCall() has issued the reject command for the pending offer
C15_Witness ==
    /\ last.name = "rejectCall"
    /\ last.result = "ok"
    /\ last.cmds = <<Cmd("reject", session)>>
    /\ callState = "OFFER_RECEIVED"

\* C16: a remote media stream is attached (created and not yet cleared) only
\* while callState is IN_CALL.
C16_StreamAttachedOnlyInCall ==
    remoteStream = "created" => callState = "IN_CALL"

\* C17: a transport acknowledgment or rejection is attributed by
\* operationInProgress. onAccept sets callState to REGISTERED and emits
\* 'registered' then 'stateChanged' when the operation is OP_REGISTER, sets
\* callState to UNREGISTERED and emits 'unregistered' then 'stateChanged' when
\* it is OP_UNREGISTER, and otherwise changes nothing and emits nothing.
\* onReject never changes callState and emits exactly 'registrationerror'
\* (OP_REGISTER) or 'unregistrationerror' (OP_UNREGISTER) carrying the
\* transport-supplied error, and nothing for any other operation.
C17_AnswerAttributedByOperation ==
    [][/\ last'.name = "onAccept"
            => /\ UNCHANGED <<opInProgress, userState, session, callerInfoStored,
                              isReady, remoteStream>>
               /\ last'.cmds = <<>>
               /\ CASE opInProgress = "OP_REGISTER" ->
                         /\ callState' = "REGISTERED"
                         /\ EvNames(last'.events) = <<"registered", "stateChanged">>
                         /\ \A k \in 1..2 : last'.events[k].at.callState = "REGISTERED"
                    [] opInProgress = "OP_UNREGISTER" ->
                         /\ callState' = "UNREGISTERED"
                         /\ EvNames(last'.events) = <<"unregistered", "stateChanged">>
                         /\ \A k \in 1..2 : last'.events[k].at.callState = "UNREGISTERED"
                    [] OTHER ->
                         /\ callState' = callState
                         /\ last'.events = <<>>
       /\ \A kind \in RequestKinds, error \in Errors \ {Undefined} :
            OnReject(kind, error)
              => /\ UNCHANGED <<callState, opInProgress, userState, session,
                                callerInfoStored, isReady, remoteStream>>
                 /\ last'.cmds = <<>>
                 /\ CASE opInProgress = "OP_REGISTER" ->
                           /\ EvNames(last'.events) = <<"registrationerror">>
                           /\ last'.events[1].arg = <<error>>
                      [] opInProgress = "OP_UNREGISTER" ->
                           /\ EvNames(last'.events) = <<"unregistrationerror">>
                           /\ last'.events[1].arg = <<error>>
                      [] OTHER -> last'.events = <<>>]_vars

\* C17 witness: an acknowledgment has arrived while the operation in progress
\* was the processing of an invitation, and nothing was emitted
C17_Witness ==
    /\ last.name = "onAccept"
    /\ opInProgress = "OP_PROCESS_INVITE"
    /\ last.events = <<>>
    /\ callState = "OFFER_RECEIVED"

\* a rejection has been surfaced as an 'unregistrationerror' event
C17_RejectionSurfaced ==
    /\ last.name = "onReject"
    /\ EvNames(last.events) = <<"unregistrationerror">>

\* C18: endCall() with a tracked session and callState in {ANSWER_SENT, IN_CALL}
\* dispatches on the sub-state of the transport session: Initial or
\* Establishing issues reject, Established issues bye, Terminating or
\* Terminated succeeds without issuing any command; endCall() itself never
\* changes callState, operationInProgress, userState or the tracked session.
C18_EndCallDispatchesOnSessionState ==
    [][/\ last'.name = "endCall"
            => /\ UNCHANGED <<callState, opInProgress, userState, session,
                              callerInfoStored, remoteStream, sessState>>
               /\ last'.events = <<>>
               /\ (session # NoSession /\ callState \in {"ANSWER_SENT", "IN_CALL"})
                    => CASE sessState[session] \in {"Initial", "Establishing"} ->
                              /\ last'.result = "ok"
                              /\ last'.cmds = <<Cmd("reject", session)>>
                         [] sessState[session] = "Established" ->
                              /\ last'.result = "ok"
                              /\ last'.cmds = <<Cmd("bye", session)>>
                         [] sessState[session] \in {"Terminating", "Terminated"} ->
                              /\ last'.result = "ok"
                              /\ last'.cmds = <<>>
                         [] OTHER -> FALSE
       /\ session # NoSession
            => \A st \in {"Terminating", "Terminated"} :
                 EndCallDispatch(st, session) = <<"ok", <<>> >>]_vars

\* C18 witness: endCall() has ended an established call with bye
C18_Witness ==
    /\ last.name = "endCall"
    /\ last.result = "ok"
    /\ callState = "IN_CALL"
    /\ session # NoSession
    /\ sessState[session] = "Established"
    /\ last.cmds = <<Cmd("bye", session)>>

\* endCall() has ended an answered call that is still being established
C18_RejectWhileEstablishing ==
    /\ last.name = "endCall"
    /\ callState = "ANSWER_SENT"
    /\ session # NoSession
    /\ sessState[session] = "Establishing"
    /\ last.cmds = <<Cmd("reject", session)>>

\* C19: when the tracked session reaches Established and the session
\* description handler or its remote media stream is absent, remote media
\* attachment fails with an error (it never returns silently) and
\* 'callestablished' is not emitted.
C19_MissingMediaIsFatal ==
    [][(TrackedSessionReports({"Established"}) /\ last'.arg.sdh \in {"none", "webNoRemote"})
         => /\ last'.result = "throw"
            /\ last'.events = <<>>
            /\ remoteStream' = remoteStream]_vars

\* C20: a tracked session is never replaced while it is still live:
\* handleIncomingCall adopts a new invitation only when no session is tracked.
C20_AdoptsOnlyWhenNoSessionTracked ==
    [][(last'.name = "handleIncomingCall" /\ session' = last'.arg.inv /\ session' # session)
         => session = NoSession]_vars

\* C21: once an unregistration has been accepted (callState UNREGISTERED),
\* callState does not become REGISTERED again until a later register() has
\* been accepted by the transport; the termination of a call does not put
\* callState back to REGISTERED. UNREGISTERED is only ever set by onAccept
\* under OP_UNREGISTER, so every step from UNREGISTERED to REGISTERED has to be
\* an acknowledgment attributed to OP_REGISTER.
C21_UnregisteredUntilRegisterAccepted ==
    [][(callState = "UNREGISTERED" /\ callState' = "REGISTERED")
         => (last'.name = "onAccept" /\ opInProgress = "OP_REGISTER")]_vars

\* the transport reports the termination (Terminating or Terminated) of
\* invitation last'.arg.inv in this step
TerminationReported ==
    /\ last'.name = "stateChange"
    /\ last'.arg.st \in {"Terminating", "Terminated"}

\* the termination of the reported invitation had not been reported before
FirstTerminationReport ==
    /\ TerminationReported
    /\ sessState[last'.arg.inv] \notin {"Terminating", "Terminated"}

\* the step applies the termination transition and emits its two events
TerminationApplied ==
    /\ last'.result = "ok"
    /\ EvNames(last'.events) = <<"callterminated", "stateChanged">>
    /\ session = last'.arg.inv
    /\ session' = NoSession
    /\ callState' = "REGISTERED"

\* the callback is discarded by the session-identity check: nothing is
\* emitted and no field of the agent changes
CallbackDiscarded ==
    /\ last'.result = "stale"
    /\ last'.events = <<>>
    /\ UNCHANGED <<callState, opInProgress, userState, session, callerInfoStored,
                   remoteStream>>

\* C22: for each adopted invitation the termination transition is applied
\* exactly once: the first termination callback of the invitation clears the
\* tracked session and emits 'callterminated' and 'stateChanged', and a second
\* callback for the same invitation is discarded by the session-identity check.
C22_TerminationAppliedExactlyOnce ==
    [][TerminationReported
         => IF FirstTerminationReport THEN TerminationApplied ELSE CallbackDiscarded]_vars

\* the part of C22 that does not depend on the invitation still being tracked:
\* the termination transition is applied at most once per adopted invitation,
\* and only to the tracked one; every other termination callback is discarded
C22_TerminationAppliedAtMostOnce ==
    [][TerminationReported
         => IF FirstTerminationReport /\ session = last'.arg.inv
            THEN TerminationApplied
            ELSE CallbackDiscarded]_vars

\* C23: in every reachable state, callState in {OFFER_RECEIVED, ANSWER_SENT,
\* IN_CALL} implies that a session is tracked and that the stored caller info
\* is set; so in those states rejectCall()/endCall() do not fail for a missing
\* session (in OFFER_RECEIVED all checks of rejectCall pass, in ANSWER_SENT and
\* IN_CALL both checks of endCall pass) and the callerInfo accessor does not
\* fail with 'invalid state'.
C23_CallInProgressHasSessionAndCaller ==
    callState \in CallInProgressStates
      => /\ session # NoSession
         /\ session \in listeners
         /\ callerInfoStored # <<>>
         /\ CallerInfoRead.result = "ok"
         /\ callState = "OFFER_RECEIVED" => RejectCallGuard
         /\ callState \in {"ANSWER_SENT", "IN_CALL"} => EndCallGuard

\* C23 witness: the tracked session has just been established, and the caller
\* info stored at adoption is read successfully in IN_CALL
C23_Witness ==
    /\ callState = "IN_CALL"
    /\ opInProgress = "OP_NONE"
    /\ last.name = "stateChange"
    /\ last.arg.st = "Established"
    /\ session = last.arg.inv
    /\ callerInfoStored # <<>>
    /\ CallerInfoRead.result = "ok"
    /\ CallerInfoRead.callerInfo = callerInfoStored

====
